---------------------------- MODULE Spec2Model ----------------------------
(***************************************************************************)
(* Reference Huffman coding (nayuki/Reference-Huffman-coding, C++).        *)
(*                                                                         *)
(* The module models FrequencyTable::buildCodeTree, CodeTree,              *)
(* CanonicalCode, HuffmanEncoder/HuffmanDecoder and the two compressor     *)
(* programs.  Symbols are numbered from 0 as in the source; a table, a     *)
(* code-length array and a code list are functions over 0..n-1.            *)
(*                                                                         *)
(* A tree node is a tuple: Leaf(s) is <<s>>, InternalNode(l, r) is         *)
(* <<l, r>>.  An operation that throws returns a record whose error field  *)
(* holds the message of the exception; "" means no exception.              *)
(***************************************************************************)
EXTENDS Integers, Sequences, FiniteSets, TLC

(***************************************************************************)
(* Bounds.  The programs use 256 byte values, a 32-bit counter and the     *)
(* ceiling 262144 = 2^18; the model keeps their structure at small scale.  *)
(***************************************************************************)
\* Largest table the tree-construction specification enumerates.
MaxSymbols == 4
\* Largest ordinary frequency the tree-construction specification enumerates.
MaxFreq == 3
\* Width of a frequency (uint32_t in the source, 32).
FreqBits == 3
\* Largest code length the canonical-code specification enumerates.
MaxCodeLen == 3
\* Longest enumerated code-length array.
MaxLens == 4

\* Number of byte values (256 in the source); the end marker is one more symbol.
NumBytes == 2
\* The ceiling is 2^CeilingBits (262144 = 2^18 in the source).
CeilingBits == 2
\* Width of the counter of the adaptive programs (uint32_t count, 32).
CountBits == 3
\* Longest enumerated input of the file round trip.
MaxInput == 5
\* Bits of a code length in the header of the static format.
HeaderBits == 8

\* UINT32_MAX at the model's width.
FreqMaxValue == 2^FreqBits - 1
\* Width of NodeWithFrequency::frequency (uint64_t, twice the width of a frequency).
AccBits == 2 * FreqBits
\* The alphabet of the programs: the byte values, then the end marker.
Bytes == 0..(NumBytes - 1)
SymbolLimit == NumBytes + 1
EofSymbol == NumBytes
Ceiling == 2^CeilingBits

VARIABLES
    \* FrequencyTable::buildCodeTree, followed by HuffmanCompress.cpp:50-55
    frequencies,    \* FrequencyTable::frequencies
    pqueue,         \* the priority queue of buildCodeTree, as the set of its elements
    code,           \* CodeTree code of HuffmanCompress main
    canonCode,      \* CanonicalCode canonCode of HuffmanCompress main
    builtCode,      \* the tree buildCodeTree returned, kept when code is replaced
    bpc,            \* position in that code
    \* CanonicalCode built from explicit lengths
    givenLens,       \* the constructor's argument
    canon,             \* the CanonicalCode constructed, or the exception thrown
    canonTree,         \* what canon.toCodeTree() returned
    cpc,            \* position: "construct", "valid", "rejected", "tree"
    \* AdaptiveHuffmanCompress main, writing to AdaptiveHuffmanDecompress main
    freqs,          \* FrequencyTable freqs of the compressor
    tree,           \* CodeTree tree of the compressor, the encoder's code tree
    count,          \* uint32_t count of the compressor
    numBitsFilled,  \* bits of the output stream's current byte
    epc,            \* compressor: "run", "done", "failed"
    channel,        \* bits written and not yet read
    dfreqs,         \* FrequencyTable freqs of the decompressor
    dtree,          \* CodeTree tree of the decompressor, the decoder's code tree
    dcount,         \* count of the decompressor
    dpc,            \* decompressor: "run", "done", "failed"
    written,        \* history: the symbol the compressor wrote last
    decoded,        \* history: the symbol the decompressor read last
    sinceReset,     \* history: symbols processed since the table was last reset
    \* HuffmanCompress / AdaptiveHuffmanCompress on a whole input, then decompression
    input,          \* the bytes of the input file
    staticFile,     \* what HuffmanCompress wrote
    adaptiveFile,   \* what AdaptiveHuffmanCompress wrote
    staticOut,      \* what HuffmanDecompress decoded from staticFile
    adaptiveOut,    \* what AdaptiveHuffmanDecompress decoded from adaptiveFile
    \* A HuffmanEncoder or HuffmanDecoder on its own, from construction on
    kpc,            \* the object: "idle", "encoder", "decoder", "crashed"
    codeTree,       \* HuffmanEncoder::codeTree / HuffmanDecoder::codeTree
    treeSet,        \* history: codeTree was assigned since construction
    stream,         \* encoder: the bits written to output; decoder: the bits left in input
    result,         \* what the last write or read did
    ops             \* number of calls of write or read

buildVars == <<frequencies, pqueue, code, canonCode, builtCode, bpc>>
canonVars == <<givenLens, canon, canonTree, cpc>>
adaptVars == <<freqs, tree, count, numBitsFilled, epc, channel,
               dfreqs, dtree, dcount, dpc, written, decoded, sinceReset>>
fileVars == <<input, staticFile, adaptiveFile, staticOut, adaptiveOut>>
coderVars == <<kpc, codeTree, treeSet, stream, result, ops>>
vars == <<buildVars, canonVars, adaptVars, fileVars, coderVars>>

----------------------------------------------------------------------------
(* Helpers *)

Min(a, b) == IF a < b THEN a ELSE b
SetMin(S) == CHOOSE x \in S : \A y \in S : x <= y
SetMax(S) == CHOOSE x \in S : \A y \in S : x >= y
\* Number of elements of a vector (a function over 0..n-1).
Size(v) == Cardinality(DOMAIN v)
\* The vector with the elements of a sequence.
Vec(s) == [i \in 0..(Len(s) - 1) |-> s[i + 1]]

NoTree == [error |-> "none", root |-> <<>>, codes |-> <<>>]
NoCanon == [error |-> "none", codeLengths |-> <<>>]

----------------------------------------------------------------------------
(* CodeTree.cpp *)

Leaf(sym) == <<sym>>
InternalNode(left, right) == <<left, right>>
IsLeaf(node) == Len(node) = 1

\* The leaves in depth-first order, each with its path (left = 0, right = 1).
RECURSIVE buildCodeList(_, _)
buildCodeList(node, prefix) ==
    IF IsLeaf(node)
    THEN << [symbol |-> node[1], bits |-> prefix] >>
    ELSE buildCodeList(node[1], Append(prefix, 0))
            \o buildCodeList(node[2], Append(prefix, 1))

\* CodeTree::CodeTree(InternalNode &&rt, uint32_t symbolLimit)
CodeTree(rt, symbolLimit) ==
    LET list == buildCodeList(rt, <<>>)
        tooBig(k) == list[k].symbol >= symbolLimit
        again(k) == \E j \in 1..(k - 1) : list[j].symbol = list[k].symbol
        failing == {k \in 1..Len(list) : tooBig(k) \/ again(k)}
        Fail(msg) == [error |-> msg, root |-> <<>>, codes |-> <<>>]
    IN  IF symbolLimit < 2 THEN Fail("At least 2 symbols needed")
        ELSE IF failing # {}
        THEN IF tooBig(SetMin(failing))
             THEN Fail("Symbol exceeds symbol limit")
             ELSE Fail("Symbol has more than one code")
        ELSE [error |-> "",
              root |-> rt,
              codes |-> [s \in 0..(symbolLimit - 1) |->
                           IF \E k \in 1..Len(list) : list[k].symbol = s
                           THEN list[CHOOSE k \in 1..Len(list) : list[k].symbol = s].bits
                           ELSE <<>>]]

\* CodeTree::getCode
getCode(t, symbol) ==
    IF symbol >= Size(t.codes)
    THEN [error |-> "std::out_of_range", bits |-> <<>>]
    ELSE IF t.codes[symbol] = <<>>
    THEN [error |-> "No code for given symbol", bits |-> <<>>]
    ELSE [error |-> "", bits |-> t.codes[symbol]]

----------------------------------------------------------------------------
(* FrequencyTable.cpp *)

\* FrequencyTable::increment
increment(fr, symbol) ==
    IF fr[symbol] = FreqMaxValue
    THEN [error |-> "Maximum frequency reached", frequencies |-> fr]
    ELSE [error |-> "", frequencies |-> [fr EXCEPT ![symbol] = @ + 1]]

NodeWithFrequency(nd, lowSym, freq) ==
    [node |-> nd, lowestSymbol |-> lowSym, frequency |-> freq]

\* A comparison that orders by frequency alone, without the tie-break on the
\* lowest symbol.
LessNoTieBreak(a, b) == a.frequency > b.frequency

\* A comparison that puts the highest frequency at the top of the queue.
LessReversed(a, b) ==
    IF a.frequency < b.frequency THEN TRUE
    ELSE IF a.frequency > b.frequency THEN FALSE
    ELSE a.lowestSymbol > b.lowestSymbol

\* NodeWithFrequency::operator<, the order of the max-heap: the top of the queue
\* is an element that is less than no other.
Less(a, b) ==
    IF a.frequency > b.frequency THEN TRUE
    ELSE IF a.frequency < b.frequency THEN FALSE
    ELSE IF a.lowestSymbol > b.lowestSymbol THEN TRUE
    ELSE IF a.lowestSymbol < b.lowestSymbol THEN FALSE
    ELSE FALSE

\* The elements std::priority_queue::top may return: with equivalent
\* elements at the top, which one is returned depends on the heap's layout.
TopSet(pq) == {x \in pq : \A y \in pq : ~Less(x, y)}

\* First loop of buildCodeTree: a leaf per symbol of non-zero frequency.
LeafQueue(fr) ==
    {NodeWithFrequency(Leaf(i), i, fr[i]) : i \in {j \in DOMAIN fr : fr[j] > 0}}

\* A padding loop that adds every zero-frequency symbol, however many
\* candidates the queue already holds.
RECURSIVE PadQueueAll(_, _, _)
PadQueueAll(pq, fr, i) ==
    IF i >= Size(fr) THEN pq
    ELSE PadQueueAll(IF fr[i] = 0
                     THEN pq \cup {NodeWithFrequency(Leaf(i), i, fr[i])}
                     ELSE pq, fr, i + 1)

\* Second loop of buildCodeTree: pad with zero-frequency symbols, lowest first.
RECURSIVE PadQueue(_, _, _)
PadQueue(pq, fr, i) ==
    IF i >= Size(fr) \/ Cardinality(pq) >= 2 THEN pq
    ELSE PadQueue(IF fr[i] = 0
                  THEN pq \cup {NodeWithFrequency(Leaf(i), i, fr[i])}
                  ELSE pq, fr, i + 1)

\* A merge that adds the frequencies in the width of a table entry.
MergeNodesNarrow(x, y) ==
    NodeWithFrequency(InternalNode(x.node, y.node),
                      Min(x.lowestSymbol, y.lowestSymbol),
                      (x.frequency + y.frequency) % (2^FreqBits))

\* The node pushed by one round of the merge loop; x is popped first.
MergeNodes(x, y) ==
    NodeWithFrequency(InternalNode(x.node, y.node),
                      Min(x.lowestSymbol, y.lowestSymbol),
                      (x.frequency + y.frequency) % (2^AccBits))

\* FrequencyTable::popQueue: the element removed.
popQueue(pq) == CHOOSE x \in TopSet(pq) : TRUE

RECURSIVE MergeLoop(_)
MergeLoop(pq) ==
    IF Cardinality(pq) <= 1 THEN pq
    ELSE LET x == popQueue(pq)
             y == popQueue(pq \ {x})
         IN  MergeLoop((pq \ {x, y}) \cup {MergeNodes(x, y)})

\* The tail of buildCodeTree: the remaining node becomes the root.
RootToTree(temp, symbolLimit) ==
    IF IsLeaf(temp.node)
    THEN [error |-> "null root", root |-> <<>>, codes |-> <<>>]
    ELSE CodeTree(temp.node, symbolLimit)

\* FrequencyTable::buildCodeTree
buildCodeTree(fr) ==
    RootToTree(popQueue(MergeLoop(PadQueue(LeafQueue(fr), fr, 0))), Size(fr))

----------------------------------------------------------------------------
(* CanonicalCode.cpp *)

\* A traversal that records a right child at its parent's depth.
RECURSIVE buildCodeLengthsShallowRight(_, _, _)
buildCodeLengthsShallowRight(cc, node, depth) ==
    IF cc.error # "" THEN cc
    ELSE IF ~IsLeaf(node)
    THEN buildCodeLengthsShallowRight(
             buildCodeLengthsShallowRight(cc, node[1], depth + 1), node[2], depth)
    ELSE IF node[1] >= Size(cc.codeLengths)
    THEN [error |-> "Symbol exceeds symbol limit", codeLengths |-> <<>>]
    ELSE IF cc.codeLengths[node[1]] # 0
    THEN [error |-> "Assertion error: Symbol has more than one code", codeLengths |-> <<>>]
    ELSE [cc EXCEPT !.codeLengths[node[1]] = depth]

\* CanonicalCode::buildCodeLengths: the length array after visiting node at depth.
RECURSIVE buildCodeLengths(_, _, _)
buildCodeLengths(cc, node, depth) ==
    IF cc.error # "" THEN cc
    ELSE IF ~IsLeaf(node)
    THEN buildCodeLengths(buildCodeLengths(cc, node[1], depth + 1), node[2], depth + 1)
    ELSE IF node[1] >= Size(cc.codeLengths)
    THEN [error |-> "Symbol exceeds symbol limit", codeLengths |-> <<>>]
    ELSE IF cc.codeLengths[node[1]] # 0
    THEN [error |-> "Assertion error: Symbol has more than one code", codeLengths |-> <<>>]
    ELSE [cc EXCEPT !.codeLengths[node[1]] = depth]

\* CanonicalCode::CanonicalCode(const CodeTree &tree, uint32_t symbolLimit)
CanonicalCodeOfTree(t, symbolLimit) ==
    IF symbolLimit < 2
    THEN [error |-> "At least 2 symbols needed", codeLengths |-> <<>>]
    ELSE buildCodeLengths([error |-> "",
                           codeLengths |-> [s \in 0..(symbolLimit - 1) |-> 0]],
                          t.root, 0)

\* std::sort(..., std::greater<uint32_t>()): the elements as a descending sequence.
RECURSIVE SortDescending(_)
SortDescending(v) ==
    IF DOMAIN v = {} THEN <<>>
    ELSE LET m == SetMax({v[i] : i \in DOMAIN v})
             k == CHOOSE i \in DOMAIN v : v[i] = m
         IN  <<m>> \o SortDescending([i \in DOMAIN v \ {k} |-> v[i]])

\* A halving loop without the check for an odd number of nodes.
RECURSIVE HalveNoOddCheck(_, _)
HalveNoOddCheck(st, lower) ==
    IF st.error # "" \/ ~(lower < st.currentLevel) THEN st
    ELSE HalveNoOddCheck([st EXCEPT !.numNodesAtLevel = @ \div 2,
                                    !.currentLevel = @ - 1], lower)

\* The halving loop "while (lower < currentLevel)" of the validity check.
RECURSIVE Halve(_, _)
Halve(st, lower) ==
    IF st.error # "" \/ ~(lower < st.currentLevel) THEN st
    ELSE IF st.numNodesAtLevel % 2 # 0
    THEN [st EXCEPT !.error = "Under-full Huffman code tree"]
    ELSE Halve([st EXCEPT !.numNodesAtLevel = @ \div 2, !.currentLevel = @ - 1], lower)

\* The loop over the sorted lengths, from index k on.
RECURSIVE CountLevels(_, _, _)
CountLevels(st, sorted, k) ==
    IF st.error # "" \/ k > Len(sorted) THEN st
    ELSE IF sorted[k] = 0 THEN st
    ELSE LET h == Halve(st, sorted[k])
         IN  IF h.error # "" THEN h
             ELSE CountLevels([h EXCEPT !.numNodesAtLevel = @ + 1], sorted, k + 1)

\* CanonicalCode::CanonicalCode(const vector<uint32_t> &codeLens)
CanonicalCode(codeLens) ==
    IF Size(codeLens) < 2
    THEN [error |-> "At least 2 symbols needed", codeLengths |-> <<>>]
    ELSE LET sorted == SortDescending(codeLens)
             start == [error |-> "", currentLevel |-> sorted[1], numNodesAtLevel |-> 0]
             final == Halve(CountLevels(start, sorted, 1), 0)
         IN  IF final.error # "" THEN [error |-> final.error, codeLengths |-> <<>>]
             ELSE IF final.numNodesAtLevel < 1
             THEN [error |-> "Under-full Huffman code tree", codeLengths |-> <<>>]
             ELSE IF final.numNodesAtLevel > 1
             THEN [error |-> "Over-full Huffman code tree", codeLengths |-> <<>>]
             ELSE [error |-> "", codeLengths |-> codeLens]

\* The leaves toCodeTree adds at level i, by ascending symbol.
RECURSIVE LeavesAt(_, _, _)
LeavesAt(lens, i, j) ==
    IF j >= Size(lens) THEN <<>>
    ELSE (IF lens[j] = i THEN <<Leaf(j)>> ELSE <<>>) \o LeavesAt(lens, i, j + 1)

\* The pairs of the deeper layer, merged in order.
RECURSIVE MergePairs(_, _)
MergePairs(nodes, j) ==
    IF j > Len(nodes) THEN <<>>
    ELSE <<InternalNode(nodes[j], nodes[j + 1])>> \o MergePairs(nodes, j + 2)

\* A pass that puts the merged pairs before the leaves of the level.
LevelNodesPairsFirst(lens, i, nodes) ==
    MergePairs(nodes, 1) \o (IF i > 0 THEN LeavesAt(lens, i, 0) ELSE <<>>)

\* One pass of the loop of toCodeTree: the node list after level i.
LevelNodes(lens, i, nodes) ==
    (IF i > 0 THEN LeavesAt(lens, i, 0) ELSE <<>>) \o MergePairs(nodes, 1)

\* The loop of toCodeTree from level i down to 0.
RECURSIVE Descend(_, _, _)
Descend(lens, i, nodes) ==
    IF Len(nodes) % 2 # 0
    THEN [error |-> "Assertion error: Violation of canonical code invariants", nodes |-> <<>>]
    ELSE IF i = 0 THEN [error |-> "", nodes |-> LevelNodes(lens, i, nodes)]
    ELSE Descend(lens, i - 1, LevelNodes(lens, i, nodes))

\* CanonicalCode::toCodeTree
toCodeTree(cc) ==
    LET lens == cc.codeLengths
        r == Descend(lens, SetMax({lens[s] : s \in DOMAIN lens}), <<>>)
    IN  IF r.error # "" THEN [error |-> r.error, root |-> <<>>, codes |-> <<>>]
        ELSE IF Len(r.nodes) # 1
        THEN [error |-> "Assertion error: Violation of canonical code invariants",
              root |-> <<>>, codes |-> <<>>]
        ELSE IF IsLeaf(r.nodes[1])
        THEN [error |-> "null root", root |-> <<>>, codes |-> <<>>]
        ELSE CodeTree(r.nodes[1], Size(lens))

----------------------------------------------------------------------------
(* HuffmanCoder.cpp *)

\* The null value of a const CodeTree *.
nullptr == [error |-> "nullptr", root |-> <<>>, codes |-> <<>>]

\* HuffmanEncoder::write with code tree t: the bits emitted.
write(t, symbol) ==
    IF t = nullptr THEN [error |-> "Code tree is null", bits |-> <<>>]
    ELSE getCode(t, symbol)

\* The loop of HuffmanDecoder::read from an internal node: one bit per step.
RECURSIVE readFrom(_, _)
readFrom(node, bits) ==
    IF bits = <<>>
    THEN [error |-> "End of stream", symbol |-> -1, rest |-> <<>>]
    ELSE LET nextNode == IF Head(bits) = 0 THEN node[1] ELSE node[2]
         IN  IF IsLeaf(nextNode)
             THEN [error |-> "", symbol |-> nextNode[1], rest |-> Tail(bits)]
             ELSE IF Len(nextNode) = 2
             THEN readFrom(nextNode, Tail(bits))
             ELSE [error |-> "Assertion error: Illegal node type",
                   symbol |-> -1, rest |-> Tail(bits)]

\* HuffmanDecoder::read with code tree t: the symbol and the bits left.
read(t, bits) ==
    IF t = nullptr THEN [error |-> "Code tree is null", symbol |-> -1, rest |-> bits]
    ELSE readFrom(t.root, bits)

\* BitOutputStream::finish: zero bits up to the next byte boundary.
Padding(filled) == [i \in 1..((8 - (filled % 8)) % 8) |-> 0]

----------------------------------------------------------------------------
(* AdaptiveHuffmanCompress.cpp *)

RECURSIVE BitAnd(_, _)
BitAnd(x, y) ==
    IF x = 0 \/ y = 0 THEN 0
    ELSE (x % 2) * (y % 2) + 2 * BitAnd(x \div 2, y \div 2)

\* A test that takes every even number for a power of two.
isPowerOf2Even(x) == x > 0 /\ x % 2 = 0

\* isPowerOf2: x > 0 && (x & (x - 1)) == 0
isPowerOf2(x) == x > 0 /\ BitAnd(x, x - 1) = 0

\* std::vector<uint32_t> initFreqs(257, 1)
initFreqs == [s \in 0..(SymbolLimit - 1) |-> 1]

\* A compressor that rebuilds the tree after every byte.
UpdateCodeTreeAlways(c) == TRUE

\* The condition under "Update code tree" (line 66).
UpdateCodeTree(c) == (c < Ceiling /\ isPowerOf2(c)) \/ c % Ceiling = 0

\* A compressor that never resets its frequency table.
ResetTableNever(c) == FALSE

\* The condition under "Reset frequency table" (line 68).
ResetTable(c) == c % Ceiling = 0

\* A round that resets the table before it rebuilds the tree.
RoundResetFirst(fr, t, c, symbol) ==
    LET w == write(t, symbol)
        n == (c + 1) % (2^CountBits)
        inc == increment(fr, symbol)
        after == IF n % Ceiling = 0 THEN initFreqs ELSE inc.frequencies
    IN  IF w.error # ""
        THEN [error |-> w.error, bits |-> <<>>, freqs |-> fr, tree |-> t, count |-> c]
        ELSE IF inc.error # ""
        THEN [error |-> inc.error, bits |-> w.bits, freqs |-> fr, tree |-> t, count |-> n]
        ELSE [error |-> "",
              bits |-> w.bits,
              freqs |-> after,
              tree |-> IF (n < Ceiling /\ isPowerOf2(n)) \/ n % Ceiling = 0
                       THEN buildCodeTree(after) ELSE t,
              count |-> n]

\* One round of the loop (lines 61-69) from table fr, tree t and count c on
\* a byte: the bits written and the locals after the round.
Round(fr, t, c, symbol) ==
    LET w == write(t, symbol)
        n == (c + 1) % (2^CountBits)
        inc == increment(fr, symbol)
    IN  IF w.error # ""
        THEN [error |-> w.error, bits |-> <<>>, freqs |-> fr, tree |-> t, count |-> c]
        ELSE IF inc.error # ""
        THEN [error |-> inc.error, bits |-> w.bits, freqs |-> fr, tree |-> t, count |-> n]
        ELSE [error |-> "",
              bits |-> w.bits,
              freqs |-> IF ResetTable(n) THEN initFreqs ELSE inc.frequencies,
              tree |-> IF UpdateCodeTree(n) THEN buildCodeTree(inc.frequencies) ELSE t,
              count |-> n]

\* The loop over the rest of the input, then lines 72-73: the file written.
RECURSIVE AdaptiveLoop(_, _, _, _, _)
AdaptiveLoop(fr, t, c, data, out) ==
    IF data = <<>>
    THEN LET w == write(t, EofSymbol)
         IN  IF w.error # "" THEN [error |-> w.error, bits |-> out, symbols |-> <<>>]
             ELSE [error |-> "",
                   bits |-> out \o w.bits \o Padding(Len(out \o w.bits)),
                   symbols |-> <<>>]
    ELSE LET r == Round(fr, t, c, Head(data))
         IN  IF r.error # "" THEN [error |-> r.error, bits |-> out \o r.bits, symbols |-> <<>>]
             ELSE AdaptiveLoop(r.freqs, r.tree, r.count, Tail(data), out \o r.bits)

\* AdaptiveHuffmanCompress main on the bytes of a file.
AdaptiveCompress(data) ==
    AdaptiveLoop(initFreqs, buildCodeTree(initFreqs), 0, data, <<>>)

----------------------------------------------------------------------------
(* The adaptive decompressor.  Its file is not among the sources; it is    *)
(* modelled from the header comment of AdaptiveHuffmanCompress.cpp (lines  *)
(* 6-10: same flat table, same updates, regeneration at the exact same     *)
(* points) and the adaptive protocol of the specification.                 *)

DecUpdateCodeTree(c) == (c < Ceiling /\ isPowerOf2(c)) \/ c % Ceiling = 0
DecResetTable(c) == c % Ceiling = 0

\* The update after a decoded byte.
DecRound(fr, t, c, symbol) ==
    LET n == (c + 1) % (2^CountBits)
        inc == increment(fr, symbol)
    IN  IF inc.error # ""
        THEN [error |-> inc.error, freqs |-> fr, tree |-> t, count |-> n]
        ELSE [error |-> "",
              freqs |-> IF DecResetTable(n) THEN initFreqs ELSE inc.frequencies,
              tree |-> IF DecUpdateCodeTree(n) THEN buildCodeTree(inc.frequencies) ELSE t,
              count |-> n]

\* Decode until the end marker: the symbols read, the end marker included.
RECURSIVE AdaptiveDecodeLoop(_, _, _, _, _)
AdaptiveDecodeLoop(fr, t, c, bits, out) ==
    LET r == read(t, bits)
    IN  IF r.error # "" THEN [error |-> r.error, bits |-> <<>>, symbols |-> out]
        ELSE IF r.symbol = EofSymbol
        THEN [error |-> "", bits |-> <<>>, symbols |-> Append(out, r.symbol)]
        ELSE LET u == DecRound(fr, t, c, r.symbol)
             IN  IF u.error # "" THEN [error |-> u.error, bits |-> <<>>, symbols |-> out]
                 ELSE AdaptiveDecodeLoop(u.freqs, u.tree, u.count, r.rest,
                                         Append(out, r.symbol))

AdaptiveDecompress(bits) ==
    AdaptiveDecodeLoop(initFreqs, buildCodeTree(initFreqs), 0, bits, <<>>)

----------------------------------------------------------------------------
(* HuffmanCompress.cpp *)

\* Lines 41-50: the table after the first pass over the input and the end marker.
RECURSIVE CountPass(_, _)
CountPass(fr, data) ==
    IF data = <<>> THEN increment(fr, EofSymbol)
    ELSE LET inc == increment(fr, Head(data))
         IN  IF inc.error # "" THEN inc ELSE CountPass(inc.frequencies, Tail(data))

\* Lines 70-72: a value as HeaderBits bits, most significant first.
RECURSIVE BigEndian(_, _)
BigEndian(val, j) ==
    IF j < 0 THEN <<>> ELSE <<(val \div (2^j)) % 2>> \o BigEndian(val, j - 1)

\* Lines 65-73: the code length table from symbol i on.
RECURSIVE LengthTable(_, _)
LengthTable(lens, i) ==
    IF i >= Size(lens) THEN [error |-> "", bits |-> <<>>]
    ELSE IF lens[i] >= 2^HeaderBits
    THEN [error |-> "The code for a symbol is too long", bits |-> <<>>]
    ELSE LET more == LengthTable(lens, i + 1)
         IN  [error |-> more.error,
              bits |-> BigEndian(lens[i], HeaderBits - 1) \o more.bits]

\* Lines 75-86: the symbols of the input, then the end marker.
RECURSIVE EncodeAll(_, _)
EncodeAll(t, data) ==
    LET w == write(t, IF data = <<>> THEN EofSymbol ELSE Head(data))
    IN  IF w.error # "" \/ data = <<>> THEN w
        ELSE LET more == EncodeAll(t, Tail(data))
             IN  [error |-> more.error, bits |-> w.bits \o more.bits]

\* HuffmanCompress main on the bytes of a file.
StaticCompress(data) ==
    LET pass == CountPass([s \in 0..(SymbolLimit - 1) |-> 0], data)
        built == buildCodeTree(pass.frequencies)
        canonical == CanonicalCodeOfTree(built, SymbolLimit)
        replaced == toCodeTree(canonical)
        header == LengthTable(canonical.codeLengths, 0)
        body == EncodeAll(replaced, data)
        Fail(msg, sofar) == [error |-> msg, bits |-> sofar, symbols |-> <<>>]
    IN  IF pass.error # "" THEN Fail(pass.error, <<>>)
        ELSE IF built.error # "" THEN Fail(built.error, <<>>)
        ELSE IF canonical.error # "" THEN Fail(canonical.error, <<>>)
        ELSE IF replaced.error # "" THEN Fail(replaced.error, <<>>)
        ELSE IF header.error # "" THEN Fail(header.error, <<>>)
        ELSE IF body.error # "" THEN Fail(body.error, header.bits)
        ELSE [error |-> "",
              bits |-> header.bits \o body.bits
                         \o Padding(Len(header.bits \o body.bits)),
              symbols |-> <<>>]

----------------------------------------------------------------------------
(* The static decompressor.  Its file is not among the sources; it is      *)
(* modelled from the file format of the specification: SymbolLimit code    *)
(* lengths of HeaderBits bits, most significant first, then symbols coded  *)
(* with the canonical tree of those lengths up to the end marker.          *)

RECURSIVE ReadValue(_, _, _)
ReadValue(bits, k, acc) ==
    IF k = 0 THEN acc ELSE ReadValue(Tail(bits), k - 1, 2 * acc + Head(bits))

ReadLengthTable(bits) ==
    [s \in 0..(SymbolLimit - 1) |->
        ReadValue(SubSeq(bits, s * HeaderBits + 1, (s + 1) * HeaderBits), HeaderBits, 0)]

RECURSIVE DecodeAll(_, _, _)
DecodeAll(t, bits, out) ==
    LET r == read(t, bits)
    IN  IF r.error # "" THEN [error |-> r.error, bits |-> <<>>, symbols |-> out]
        ELSE IF r.symbol = EofSymbol
        THEN [error |-> "", bits |-> <<>>, symbols |-> Append(out, r.symbol)]
        ELSE DecodeAll(t, r.rest, Append(out, r.symbol))

StaticDecompress(bits) ==
    IF Len(bits) < SymbolLimit * HeaderBits
    THEN [error |-> "End of stream", bits |-> <<>>, symbols |-> <<>>]
    ELSE LET canonical == CanonicalCode(ReadLengthTable(bits))
             t == toCodeTree(canonical)
         IN  IF canonical.error # ""
             THEN [error |-> canonical.error, bits |-> <<>>, symbols |-> <<>>]
             ELSE IF t.error # ""
             THEN [error |-> t.error, bits |-> <<>>, symbols |-> <<>>]
             ELSE DecodeAll(t, SubSeq(bits, SymbolLimit * HeaderBits + 1, Len(bits)), <<>>)

----------------------------------------------------------------------------
(* Tree construction, step by step (SpecBuild).                            *)
(* A table is drawn, buildCodeTree runs one loop per step with the queue   *)
(* free to return any of its top elements, and the tree is made canonical  *)
(* as HuffmanCompress does.                                                *)

\* The tables drawn: every table of 2..MaxSymbols symbols over the ordinary
\* frequencies and the largest representable one.
FreqValues == (0..MaxFreq) \cup {FreqMaxValue}

IdleBuild ==
    /\ frequencies = <<>>
    /\ pqueue = {}
    /\ code = NoTree
    /\ canonCode = NoCanon
    /\ builtCode = NoTree
    /\ bpc = "idle"

IdleCanon ==
    /\ givenLens = <<>>
    /\ canon = NoCanon
    /\ canonTree = NoTree
    /\ cpc = "idle"

IdleAdaptive ==
    /\ freqs = <<>> /\ tree = NoTree /\ count = 0 /\ numBitsFilled = 0
    /\ epc = "idle" /\ channel = <<>>
    /\ dfreqs = <<>> /\ dtree = NoTree /\ dcount = 0 /\ dpc = "idle"
    /\ written = -1 /\ decoded = -1 /\ sinceReset = 0

NotRun == [error |-> "none", bits |-> <<>>, symbols |-> <<>>]

NoResult == [op |-> "none", error |-> "", symbol |-> -1, bits |-> <<>>]

IdleCoder ==
    /\ kpc = "idle" /\ codeTree = NoTree /\ treeSet = FALSE
    /\ stream = <<>> /\ result = NoResult /\ ops = 0

IdleFile ==
    /\ input = <<>>
    /\ staticFile = NotRun /\ adaptiveFile = NotRun
    /\ staticOut = NotRun /\ adaptiveOut = NotRun

InitBuild ==
    /\ IdleCanon /\ IdleAdaptive /\ IdleFile /\ IdleCoder
    /\ \E n \in 2..MaxSymbols : frequencies \in [0..(n - 1) -> FreqValues]
    /\ pqueue = {}
    /\ code = NoTree
    /\ canonCode = NoCanon
    /\ builtCode = NoTree
    /\ bpc = "leaves"

\* FrequencyTable.cpp:57-78
PushLeaves ==
    /\ bpc = "leaves"
    /\ pqueue' = PadQueue(LeafQueue(frequencies), frequencies, 0)
    /\ bpc' = "merge"
    /\ UNCHANGED <<frequencies, code, canonCode, builtCode, canonVars, adaptVars, fileVars, coderVars>>

\* FrequencyTable.cpp:81-88, one round
MergeStep ==
    /\ bpc = "merge"
    /\ Cardinality(pqueue) > 1
    /\ \E x \in TopSet(pqueue) :
         \E y \in TopSet(pqueue \ {x}) :
           pqueue' = (pqueue \ {x, y}) \cup {MergeNodes(x, y)}
    /\ UNCHANGED <<frequencies, code, canonCode, builtCode, bpc, canonVars, adaptVars, fileVars, coderVars>>

\* FrequencyTable.cpp:90-95
ReturnTree ==
    /\ bpc = "merge"
    /\ Cardinality(pqueue) = 1
    /\ \E temp \in TopSet(pqueue) :
         /\ code' = RootToTree(temp, Size(frequencies))
         /\ builtCode' = code'
    /\ pqueue' = {}
    /\ bpc' = "built"
    /\ UNCHANGED <<frequencies, canonCode, canonVars, adaptVars, fileVars, coderVars>>

\* HuffmanCompress.cpp:52
MakeCanonical ==
    /\ bpc = "built"
    /\ canonCode' = CanonicalCodeOfTree(code, Size(frequencies))
    /\ bpc' = "canonical"
    /\ UNCHANGED <<frequencies, pqueue, code, builtCode, canonVars, adaptVars, fileVars, coderVars>>

\* HuffmanCompress.cpp:55
ReplaceTree ==
    /\ bpc = "canonical"
    /\ code' = toCodeTree(canonCode)
    /\ bpc' = "replaced"
    /\ UNCHANGED <<frequencies, pqueue, canonCode, builtCode, canonVars, adaptVars, fileVars, coderVars>>

NextBuild == PushLeaves \/ MergeStep \/ ReturnTree \/ MakeCanonical \/ ReplaceTree

SpecBuild == InitBuild /\ [][NextBuild]_vars

----------------------------------------------------------------------------
(* Properties of tree construction (SpecBuild) *)

\* The symbols that have a leaf in a tree.
LeafSymbols(t) == {s \in DOMAIN t.codes : t.codes[s] # <<>>}

\* Depth of every leaf of a node, as a set of <<symbol, depth>>.
LeafDepths(node) ==
    LET list == buildCodeList(node, <<>>)
    IN  {<<list[k].symbol, Len(list[k].bits)>> : k \in 1..Len(list)}

RECURSIVE SumOver(_, _)
SumOver(S, f) ==
    IF S = {} THEN 0
    ELSE LET x == CHOOSE y \in S : TRUE IN f[x] + SumOver(S \ {x}, f)

\* Weighted path length of a node under a table: sum of frequency times depth.
WeightedPathLength(node, fr) ==
    LET d == LeafDepths(node)
    IN  SumOver(d, [p \in d |-> fr[p[1]] * p[2]])

\* Every full binary tree whose leaves are exactly the symbols of S, up to
\* the order of the children (which does not change a depth).
RECURSIVE AllTrees(_)
AllTrees(S) ==
    IF Cardinality(S) = 1 THEN {Leaf(CHOOSE s \in S : TRUE)}
    ELSE LET low == SetMin(S)
             parts == {A \in SUBSET S : low \in A /\ A # S}
         IN  UNION {{InternalNode(l, r) : l \in AllTrees(A), r \in AllTrees(S \ A)} :
                     A \in parts}

KeyOf(c) == <<c.frequency, c.lowestSymbol>>
\* The documented order: ascending frequency, then ascending lowest symbol.
KeyBefore(a, b) ==
    \/ a.frequency < b.frequency
    \/ a.frequency = b.frequency /\ a.lowestSymbol < b.lowestSymbol

\* C7 (canonical invariant): for the tree T that buildCodeTree returned for a
\* table of L symbols, CanonicalCode(T, L) is built without error, its
\* toCodeTree() succeeds, every symbol's code in the canonical tree is as long
\* as its depth in T (no code when it has no leaf in T), and the recorded
\* lengths pass the validity check of the explicit-lengths constructor.
C7_CanonicalInvariant ==
    /\ bpc \in {"canonical", "replaced"} =>
         /\ canonCode.error = ""
         /\ \A s \in DOMAIN frequencies :
              /\ <<s, canonCode.codeLengths[s]>> \in LeafDepths(builtCode.root)
                   \/ (canonCode.codeLengths[s] = 0 /\ s \notin LeafSymbols(builtCode))
         /\ CanonicalCode(canonCode.codeLengths).error = ""
    /\ bpc = "replaced" =>
         /\ code.error = ""
         /\ DOMAIN code.codes = DOMAIN frequencies
         /\ \A s \in DOMAIN frequencies :
              Len(code.codes[s]) = Len(builtCode.codes[s])
         /\ LeafSymbols(code) = LeafSymbols(builtCode)

\* C7 witness: a table with an unused symbol whose canonical tree was built
\* and differs in shape from the tree buildCodeTree returned.
C7_Witness ==
    /\ bpc = "replaced"
    /\ code.error = ""
    /\ code.root # builtCode.root
    /\ \E s \in DOMAIN frequencies : code.codes[s] = <<>>
    /\ \E s, t \in DOMAIN frequencies : Len(code.codes[s]) > Len(code.codes[t]) /\ Len(code.codes[t]) > 0

\* C9 (optimality): the tree buildCodeTree returns has the least weighted
\* path length among all full binary trees with the same leaves.
C9_Optimal ==
    bpc = "built" =>
      /\ code.error = ""
      /\ \A t \in AllTrees(LeafSymbols(code)) :
           WeightedPathLength(code.root, frequencies) <= WeightedPathLength(t, frequencies)

\* C9 witness: a built tree over four leaves of distinct depths, where a
\* balanced tree over the same leaves is strictly worse.
C9_Witness ==
    /\ bpc = "built"
    /\ code.error = ""
    /\ Cardinality(LeafSymbols(code)) = 4
    /\ \E t \in AllTrees(LeafSymbols(code)) :
         WeightedPathLength(code.root, frequencies) < WeightedPathLength(t, frequencies)

\* C10 (determinism): no two candidates held by the queue have the same key
\* (frequency, lowest symbol), so the element the queue returns is the unique
\* one that is first in the documented order, whatever the queue's layout;
\* every run of buildCodeTree on a table returns the same tree.
C10_Deterministic ==
    /\ \A a, b \in pqueue : a # b => KeyOf(a) # KeyOf(b)
    /\ pqueue # {} =>
         /\ Cardinality(TopSet(pqueue)) = 1
         /\ \A x \in TopSet(pqueue) : \A y \in pqueue \ {x} : KeyBefore(x, y)
    /\ bpc = "built" => code = buildCodeTree(frequencies)

\* C10 witness: during merging the queue holds a merged node and another
\* candidate of the same frequency.
C10_Witness ==
    /\ bpc = "merge"
    /\ \E a, b \in pqueue :
         /\ a # b
         /\ a.frequency = b.frequency
         /\ ~IsLeaf(a.node)

----------------------------------------------------------------------------
(* buildCodeTree on the largest tables (SpecWide): tables of up to          *)
(* MaxTableSize symbols whose entries are the largest frequency, but for a *)
(* prefix of entries that are 0 or 1.  The steps are those of SpecBuild.   *)

\* The largest table FrequencyTable's constructor accepts: UINT32_MAX entries.
MaxTableSize == 2^FreqBits - 1

WideTables ==
    {[i \in 0..(n - 1) |-> IF i < k THEN v ELSE FreqMaxValue] :
        n \in 2..MaxTableSize, k \in 0..MaxTableSize, v \in {0, 1}}

InitWide ==
    /\ IdleCanon /\ IdleAdaptive /\ IdleFile /\ IdleCoder
    /\ frequencies \in WideTables
    /\ pqueue = {}
    /\ code = NoTree
    /\ canonCode = NoCanon
    /\ builtCode = NoTree
    /\ bpc = "leaves"

SpecWide == InitWide /\ [][NextBuild]_vars

\* The symbols of the leaves below a node.
NodeLeaves(node) == {p[1] : p \in LeafDepths(node)}

\* C11 (no overflow during merging): the frequency of every candidate in the
\* queue is the exact sum of the table's frequencies of the leaves below it
\* and is below the range of the accumulator; the last candidate carries the
\* sum of the whole table; and a table of the largest size with every entry
\* at the largest frequency still sums below the accumulator's range.
C11_NoOverflow ==
    /\ \A x \in pqueue :
         /\ x.frequency = SumOver(NodeLeaves(x.node), frequencies)
         /\ x.frequency < 2^AccBits
    /\ bpc = "merge" /\ Cardinality(pqueue) = 1 =>
         \A x \in pqueue : x.frequency = SumOver(DOMAIN frequencies, frequencies)
    /\ MaxTableSize * FreqMaxValue < 2^AccBits

\* C11 witness: the last candidate of the largest table with every entry at
\* the largest frequency, whose sum does not fit a table entry.
C11_Witness ==
    /\ bpc = "merge"
    /\ Size(frequencies) = MaxTableSize
    /\ \A s \in DOMAIN frequencies : frequencies[s] = FreqMaxValue
    /\ \E x \in pqueue :
         /\ pqueue = {x}
         /\ x.frequency = MaxTableSize * FreqMaxValue
         /\ x.frequency > FreqMaxValue

\* The leaves the documentation promises for a table: the symbols of non-zero
\* frequency and, when these are fewer than 2, the lowest symbols of zero
\* frequency that bring the number to 2.
ExpectedLeaves(fr) ==
    LET used == {s \in DOMAIN fr : fr[s] > 0}
        unused == {s \in DOMAIN fr : fr[s] = 0}
        missing == IF Cardinality(used) >= 2 THEN 0 ELSE 2 - Cardinality(used)
    IN  used \cup {s \in unused : Cardinality({z \in unused : z < s}) < missing}

\* The number of internal nodes of a node: the merges that made it.
RECURSIVE InternalCount(_)
InternalCount(node) ==
    IF IsLeaf(node) THEN 0
    ELSE 1 + InternalCount(node[1]) + InternalCount(node[2])

\* C13 (leaf set and padding): while buildCodeTree merges, the candidates of
\* the queue hold each expected leaf exactly once and no other leaf, and the
\* merges made so far number the expected leaves less the candidates left,
\* so the loop ends after (leaves - 1) merges; the tree returned has exactly
\* the expected leaves, at least 2 of them, each symbol in at most one leaf,
\* and an internal node as its root.
C13_LeafSet ==
    /\ bpc = "merge" =>
         /\ pqueue # {}
         /\ UNION {NodeLeaves(x.node) : x \in pqueue} = ExpectedLeaves(frequencies)
         /\ \A x, y \in pqueue :
              x # y => NodeLeaves(x.node) \cap NodeLeaves(y.node) = {}
         /\ \A x \in pqueue :
              Len(buildCodeList(x.node, <<>>)) = Cardinality(NodeLeaves(x.node))
         /\ SumOver(pqueue, [x \in pqueue |-> InternalCount(x.node)])
              = Cardinality(ExpectedLeaves(frequencies)) - Cardinality(pqueue)
    /\ bpc = "built" =>
         /\ code.error = ""
         /\ ~IsLeaf(code.root)
         /\ LeafSymbols(code) = ExpectedLeaves(frequencies)
         /\ NodeLeaves(code.root) = ExpectedLeaves(frequencies)
         /\ Cardinality(LeafSymbols(code)) >= 2
         /\ Len(buildCodeList(code.root, <<>>)) = Cardinality(LeafSymbols(code))
         /\ InternalCount(code.root) = Cardinality(LeafSymbols(code)) - 1
         /\ Cardinality({s \in DOMAIN frequencies : frequencies[s] > 0}) < 2
              => Cardinality(LeafSymbols(code)) = 2

\* C13 witness: a tree was returned for a table whose only non-zero
\* frequency is that of its highest symbol: the lowest symbol was added as
\* padding and the zero-frequency symbol between them was not.
C13_Witness ==
    /\ bpc = "built"
    /\ Size(frequencies) = 3
    /\ frequencies[0] = 0 /\ frequencies[1] = 0 /\ frequencies[2] > 0
    /\ LeafSymbols(code) = {0, 2}

----------------------------------------------------------------------------
(* CanonicalCode from explicit lengths (SpecCanon): an array of code       *)
(* lengths is drawn, the constructor checks it, and an accepted code is    *)
(* turned into its canonical tree.                                         *)

\* The arrays named in the documentation of the constructor and of the class
\* (CanonicalCode.hpp:22-27, 63-73).
DocExamples ==
    {Vec(<<1>>), Vec(<<3, 0, 3>>), Vec(<<1, 2, 3>>),
     Vec(<<1, 1>>), Vec(<<2, 2, 1, 0, 0, 0>>), Vec(<<3, 3, 3, 3, 3, 3, 3, 3>>),
     Vec(<<1, 1, 1>>), Vec(<<1, 1, 2, 2, 3, 3, 3, 3>>),
     Vec(<<1, 3, 0, 2, 3>>)}

LengthArrays ==
    UNION {[0..(n - 1) -> 0..MaxCodeLen] : n \in 0..MaxLens} \cup DocExamples

InitCanon ==
    /\ IdleBuild /\ IdleAdaptive /\ IdleFile /\ IdleCoder
    /\ givenLens \in LengthArrays
    /\ canon = NoCanon
    /\ canonTree = NoTree
    /\ cpc = "construct"

\* CanonicalCode.cpp:19-55
Construct ==
    /\ cpc = "construct"
    /\ canon' = CanonicalCode(givenLens)
    /\ cpc' = IF canon'.error = "" THEN "valid" ELSE "rejected"
    /\ UNCHANGED <<givenLens, canonTree, buildVars, adaptVars, fileVars, coderVars>>

\* CanonicalCode.cpp:97-133
ToTree ==
    /\ cpc = "valid"
    /\ canonTree' = toCodeTree(canon)
    /\ cpc' = "tree"
    /\ UNCHANGED <<givenLens, canon, buildVars, adaptVars, fileVars, coderVars>>

NextCanon == Construct \/ ToTree

SpecCanon == InitCanon /\ [][NextCanon]_vars

----------------------------------------------------------------------------
(* Properties of CanonicalCode (SpecCanon) *)

\* The largest length of an array (0 for the empty array).
MaxLength(lens) == SetMax({lens[s] : s \in DOMAIN lens} \cup {0})

\* The Kraft sum of an array, scaled by 2^MaxLength: the sum over the symbols
\* of non-zero length of 2^(MaxLength - length).  The code is complete when
\* it equals KraftOne.
KraftSum(lens) ==
    LET used == {s \in DOMAIN lens : lens[s] > 0}
    IN  SumOver(used, [s \in used |-> 2^(MaxLength(lens) - lens[s])])
KraftOne(lens) == 2^MaxLength(lens)

\* Strict lexicographic order of bit strings (a proper prefix comes first).
LexLess(u, v) ==
    \E k \in 1..Len(v) :
        /\ \A j \in 1..(k - 1) : j <= Len(u) /\ u[j] = v[j]
        /\ k > Len(u) \/ u[k] < v[k]

\* C5 (completeness check): the constructor accepts an array if and only if
\* it has at least 2 symbols and its non-zero lengths have Kraft sum exactly
\* 1; an accepted code holds the array as given, a rejected one holds nothing.
C5_AcceptsIffComplete ==
    cpc \in {"valid", "rejected", "tree"} =>
      /\ (canon.error = "") <=>
           (Size(givenLens) >= 2 /\ KraftSum(givenLens) = KraftOne(givenLens))
      /\ canon.error = "" => canon.codeLengths = givenLens
      /\ canon.error # "" => canon.codeLengths = <<>> /\ cpc = "rejected"

\* C5 witness: an array with an unused symbol and three depths was accepted.
C5_Witness ==
    /\ cpc = "valid"
    /\ \E s \in DOMAIN givenLens : givenLens[s] = 0
    /\ \E s \in DOMAIN givenLens : givenLens[s] = 3

\* C6 (error kind), as claimed: an array of at least 2 symbols with unused
\* code space (Kraft sum below 1) is reported under-full, one whose codes
\* collide (Kraft sum above 1) is reported over-full, and the documented
\* examples are reported as documented.
C6_ErrorKindAsClaimed ==
    cpc \in {"valid", "rejected", "tree"} =>
      /\ Size(givenLens) >= 2 /\ KraftSum(givenLens) < KraftOne(givenLens)
           => canon.error = "Under-full Huffman code tree"
      /\ Size(givenLens) >= 2 /\ KraftSum(givenLens) > KraftOne(givenLens)
           => canon.error = "Over-full Huffman code tree"
      /\ givenLens \in {Vec(<<1>>), Vec(<<3, 0, 3>>), Vec(<<1, 2, 3>>)}
           => canon.error = "Under-full Huffman code tree"
      /\ givenLens \in {Vec(<<1, 1, 1>>), Vec(<<1, 1, 2, 2, 3, 3, 3, 3>>)}
           => canon.error = "Over-full Huffman code tree"
      /\ givenLens \in {Vec(<<1, 1>>), Vec(<<2, 2, 1, 0, 0, 0>>),
                       Vec(<<3, 3, 3, 3, 3, 3, 3, 3>>)}
           => canon.error = ""

\* C6 witness: the documented over-full example [1, 1, 1] was rejected with
\* the under-full message.
C6_Witness ==
    /\ cpc = "rejected"
    /\ givenLens = Vec(<<1, 1, 1>>)
    /\ canon.error = "Under-full Huffman code tree"

\* C8 (canonical ordering): the tree of an accepted code gives every symbol a
\* code of its length, and the codes increase strictly in lexicographic order
\* along (ascending length, then ascending symbol); the class documentation's
\* example A:1 B:3 C:0 D:2 E:3 gets A=0, B=110, C none, D=10, E=111.
C8_CanonicalOrder ==
    cpc = "tree" =>
      /\ canonTree.error = ""
      /\ \A s \in DOMAIN givenLens : Len(canonTree.codes[s]) = givenLens[s]
      /\ \A s, t \in DOMAIN givenLens :
           /\ givenLens[s] > 0 /\ givenLens[t] > 0
           /\ givenLens[s] < givenLens[t] \/ (givenLens[s] = givenLens[t] /\ s < t)
           => LexLess(canonTree.codes[s], canonTree.codes[t])
      /\ givenLens = Vec(<<1, 3, 0, 2, 3>>) =>
           canonTree.codes = Vec(<< <<0>>, <<1, 1, 0>>, <<>>, <<1, 0>>, <<1, 1, 1>> >>)

\* C8 witness: the documented example has been turned into its tree.
C8_Witness ==
    /\ cpc = "tree"
    /\ givenLens = Vec(<<1, 3, 0, 2, 3>>)
    /\ canonTree.error = ""

----------------------------------------------------------------------------
(* The adaptive compressor writing to the adaptive decompressor (Spec).    *)
(* The compressor processes one input byte per step, or the end of the     *)
(* input; the decompressor reads one symbol per step.  The decompressor    *)
(* reads what the compressor wrote, symbol by symbol.                      *)

Init ==
    /\ IdleBuild /\ IdleCanon /\ IdleFile /\ IdleCoder
    /\ freqs = initFreqs
    /\ tree = buildCodeTree(initFreqs)
    /\ count = 0
    /\ numBitsFilled = 0
    /\ epc = "run"
    /\ channel = <<>>
    /\ dfreqs = initFreqs
    /\ dtree = buildCodeTree(initFreqs)
    /\ dcount = 0
    /\ dpc = "run"
    /\ written = -1
    /\ decoded = -1
    /\ sinceReset = 0

\* AdaptiveHuffmanCompress.cpp:56-69 on input byte b
EncodeByte(b) ==
    /\ epc = "run"
    /\ channel = <<>>
    /\ LET r == Round(freqs, tree, count, b)
       IN  /\ channel' = channel \o r.bits
           /\ numBitsFilled' = (numBitsFilled + Len(r.bits)) % 8
           /\ freqs' = r.freqs
           /\ tree' = r.tree
           /\ count' = r.count
           /\ epc' = IF r.error = "" THEN "run" ELSE "failed"
           /\ sinceReset' = IF r.error = "" /\ r.freqs = initFreqs THEN 0 ELSE sinceReset + 1
    /\ written' = b
    /\ UNCHANGED <<dfreqs, dtree, dcount, dpc, decoded, buildVars, canonVars, fileVars, coderVars>>

\* AdaptiveHuffmanCompress.cpp:57-58, 72-73 at the end of the input
EncodeEof ==
    /\ epc = "run"
    /\ channel = <<>>
    /\ LET w == write(tree, EofSymbol)
       IN  /\ channel' = IF w.error = ""
                         THEN channel \o w.bits \o Padding(numBitsFilled + Len(w.bits))
                         ELSE channel
           /\ numBitsFilled' = 0
           /\ epc' = IF w.error = "" THEN "done" ELSE "failed"
    /\ written' = EofSymbol
    /\ UNCHANGED <<freqs, tree, count, sinceReset,
                   dfreqs, dtree, dcount, dpc, decoded, buildVars, canonVars, fileVars, coderVars>>

\* The decompressor's loop, one symbol
DecodeSymbol ==
    /\ dpc = "run"
    /\ channel # <<>>
    /\ LET r == read(dtree, channel)
           u == DecRound(dfreqs, dtree, dcount, r.symbol)
       IN  IF r.error # ""
           THEN /\ dpc' = "failed"
                /\ UNCHANGED <<channel, dfreqs, dtree, dcount, decoded>>
           ELSE IF r.symbol = EofSymbol
           THEN /\ dpc' = "done"
                /\ channel' = r.rest
                /\ decoded' = r.symbol
                /\ UNCHANGED <<dfreqs, dtree, dcount>>
           ELSE /\ dpc' = IF u.error = "" THEN "run" ELSE "failed"
                /\ channel' = r.rest
                /\ decoded' = r.symbol
                /\ dfreqs' = u.freqs
                /\ dtree' = u.tree
                /\ dcount' = u.count
    /\ UNCHANGED <<freqs, tree, count, numBitsFilled, epc, written, sinceReset,
                   buildVars, canonVars, fileVars, coderVars>>

Next == (\E b \in Bytes : EncodeByte(b)) \/ EncodeEof \/ DecodeSymbol

Spec == Init /\ [][Next]_vars

----------------------------------------------------------------------------
(* Compression of a whole file and its decompression (SpecFile): an input  *)
(* is drawn and compressed by both programs, and each file is decoded.     *)

\* The inputs drawn: every byte sequence up to MaxInput, and the runs of one
\* byte value up to one more than the largest frequency.
RECURSIVE SeqsUpTo(_)
SeqsUpTo(n) ==
    IF n = 0 THEN {<<>>}
    ELSE LET shorter == SeqsUpTo(n - 1)
         IN  shorter \cup {Append(q, b) : q \in {x \in shorter : Len(x) = n - 1}, b \in Bytes}

Runs == {[i \in 1..n |-> b] : n \in 1..(FreqMaxValue + 1), b \in Bytes}

Occurrences(data, b) == Cardinality({i \in 1..Len(data) : data[i] = b})

InitFile ==
    /\ IdleBuild /\ IdleCanon /\ IdleAdaptive /\ IdleCoder
    /\ input \in SeqsUpTo(MaxInput) \cup Runs
    /\ staticFile = NotRun /\ adaptiveFile = NotRun
    /\ staticOut = NotRun /\ adaptiveOut = NotRun

\* HuffmanCompress.cpp main
RunStaticCompress ==
    /\ staticFile = NotRun
    /\ staticFile' = StaticCompress(input)
    /\ UNCHANGED <<input, adaptiveFile, staticOut, adaptiveOut, buildVars, canonVars, adaptVars, coderVars>>

\* AdaptiveHuffmanCompress.cpp main
RunAdaptiveCompress ==
    /\ adaptiveFile = NotRun
    /\ adaptiveFile' = AdaptiveCompress(input)
    /\ UNCHANGED <<input, staticFile, staticOut, adaptiveOut, buildVars, canonVars, adaptVars, coderVars>>

\* The static decompressor on the file written
RunStaticDecompress ==
    /\ staticFile # NotRun /\ staticFile.error = ""
    /\ staticOut = NotRun
    /\ staticOut' = StaticDecompress(staticFile.bits)
    /\ UNCHANGED <<input, staticFile, adaptiveFile, adaptiveOut, buildVars, canonVars, adaptVars, coderVars>>

\* The adaptive decompressor on the file written
RunAdaptiveDecompress ==
    /\ adaptiveFile # NotRun /\ adaptiveFile.error = ""
    /\ adaptiveOut = NotRun
    /\ adaptiveOut' = AdaptiveDecompress(adaptiveFile.bits)
    /\ UNCHANGED <<input, staticFile, adaptiveFile, staticOut, buildVars, canonVars, adaptVars, coderVars>>

NextFile ==
    RunStaticCompress \/ RunAdaptiveCompress \/ RunStaticDecompress \/ RunAdaptiveDecompress

SpecFile == InitFile /\ [][NextFile]_vars

----------------------------------------------------------------------------
(* A HuffmanEncoder or a HuffmanDecoder on its own (SpecCoder).  The       *)
(* constructors initialise the stream reference only: codeTree is left     *)
(* uninitialised, so until it is assigned its value is whatever the        *)
(* object's storage held: the null pointer, the address of a CodeTree that *)
(* is still in memory, the address of readable memory that holds no        *)
(* CodeTree, or an address that is no object's.                            *)

\* Calls of write or read in a behaviour.
MaxOps == 2
\* Longest input stream given to a decoder.
MaxStreamBits == 3

\* A pointer that is no object's address: dereferencing it ends the process.
WildPointer == [error |-> "wild", root |-> <<>>, codes |-> <<>>]

\* A pointer to readable memory of zero bytes, read as a CodeTree: a root
\* whose two children are null and an empty vector of codes.
BlankMemory == [error |-> "blank", root |-> << <<>>, <<>> >>, codes |-> <<>>]

\* Code trees that exist in memory.
SampleTrees ==
    {buildCodeTree(initFreqs), buildCodeTree([initFreqs EXCEPT ![0] = MaxFreq])}

\* The values an uninitialised codeTree may have.
Indeterminate == {nullptr, WildPointer, BlankMemory} \cup SampleTrees

RECURSIVE BitSeqsUpTo(_)
BitSeqsUpTo(n) ==
    IF n = 0 THEN {<<>>}
    ELSE LET shorter == BitSeqsUpTo(n - 1)
         IN  shorter \cup {Append(q, b) : q \in shorter, b \in {0, 1}}

\* HuffmanEncoder::HuffmanEncoder / HuffmanDecoder::HuffmanDecoder
InitCoder ==
    /\ IdleBuild /\ IdleCanon /\ IdleAdaptive /\ IdleFile
    /\ kpc \in {"encoder", "decoder"}
    /\ codeTree \in Indeterminate
    /\ treeSet = FALSE
    /\ stream \in (IF kpc = "encoder" THEN {<<>>} ELSE BitSeqsUpTo(MaxStreamBits))
    /\ result = NoResult
    /\ ops = 0

\* enc.codeTree = &t, dec.codeTree = &t, at any time and any number of times;
\* t may be the null pointer.
SetCodeTree(t) ==
    /\ kpc \in {"encoder", "decoder"}
    /\ codeTree' = t
    /\ treeSet' = TRUE
    /\ UNCHANGED <<kpc, stream, result, ops, buildVars, canonVars, adaptVars, fileVars>>

\* HuffmanEncoder::write(symbol)
Write(symbol) ==
    /\ kpc = "encoder"
    /\ ops < MaxOps
    /\ ops' = ops + 1
    /\ IF codeTree = WildPointer
       THEN /\ kpc' = "crashed"
            /\ result' = [op |-> "write", error |-> "Segmentation fault",
                          symbol |-> symbol, bits |-> <<>>]
            /\ UNCHANGED stream
       ELSE LET w == write(codeTree, symbol)
            IN  /\ stream' = stream \o w.bits
                /\ result' = [op |-> "write", error |-> w.error,
                              symbol |-> symbol, bits |-> w.bits]
                /\ UNCHANGED kpc
    /\ UNCHANGED <<codeTree, treeSet, buildVars, canonVars, adaptVars, fileVars>>

\* HuffmanDecoder::read()
Read ==
    /\ kpc = "decoder"
    /\ ops < MaxOps
    /\ ops' = ops + 1
    /\ IF codeTree = WildPointer /\ stream = <<>>
       THEN \* readNoEof (line 22) throws before the pointer is dereferenced
            /\ result' = [op |-> "read", error |-> "End of stream",
                          symbol |-> -1, bits |-> <<>>]
            /\ UNCHANGED <<kpc, stream>>
       ELSE IF codeTree = WildPointer
       THEN \* one bit is read (line 22), then line 24 or 25 dereferences
            /\ kpc' = "crashed"
            /\ result' = [op |-> "read", error |-> "Segmentation fault",
                          symbol |-> -1, bits |-> <<Head(stream)>>]
            /\ stream' = Tail(stream)
       ELSE LET r == read(codeTree, stream)
            IN  /\ stream' = r.rest
                /\ result' = [op |-> "read", error |-> r.error, symbol |-> r.symbol,
                              bits |-> SubSeq(stream, 1, Len(stream) - Len(r.rest))]
                /\ UNCHANGED kpc
    /\ UNCHANGED <<codeTree, treeSet, buildVars, canonVars, adaptVars, fileVars>>

NextCoder ==
    \/ \E t \in SampleTrees \cup {nullptr} : SetCodeTree(t)
    \/ \E symbol \in 0..(SymbolLimit - 1) : Write(symbol)
    \/ Read

SpecCoder == InitCoder /\ [][NextCoder]_vars

\* A code tree has been set: codeTree was assigned, and not the null pointer.
HasTree == treeSet /\ codeTree # nullptr

\* C12 as claimed: a write or read on an object for which no code tree has
\* been set fails with "Code tree is null", emits no bit and consumes no
\* bit; a write once a tree is set emits exactly the bits of that tree's
\* code for the symbol.
C12_NoActiveTreeAsClaimed ==
    [][ops' # ops =>
        /\ ~HasTree =>
              /\ result'.error = "Code tree is null"
              /\ stream' = stream
        /\ HasTree /\ kpc = "encoder" =>
              /\ result'.error = ""
              /\ stream' = stream \o codeTree.codes[result'.symbol]]_vars

\* C12 witness: bits were emitted by an encoder whose codeTree was never
\* assigned.
C12_Witness ==
    /\ kpc = "encoder"
    /\ ~treeSet
    /\ ops > 0
    /\ result.error = ""
    /\ result.bits # <<>>
    /\ stream # <<>>

\* What the code does guarantee: an object whose codeTree is the null pointer
\* fails with "Code tree is null" and leaves the stream alone, and with a
\* tree assigned a write emits the bits of the symbol's code in that tree and
\* a read consumes the bits of the symbol it returns.
CoderWithDeterminateTree ==
    [][ops' # ops =>
        /\ codeTree = nullptr =>
              /\ result'.error = "Code tree is null"
              /\ stream' = stream
        /\ HasTree /\ kpc = "encoder" =>
              /\ result'.error = ""
              /\ stream' = stream \o codeTree.codes[result'.symbol]
        /\ HasTree /\ kpc = "decoder" /\ result'.error = "" =>
              /\ stream = codeTree.codes[result'.symbol] \o stream'
              /\ result'.bits = codeTree.codes[result'.symbol]]_vars

----------------------------------------------------------------------------
(* Properties of the adaptive programs (Spec) *)

\* n is a power of two below the ceiling.
PowerOfTwoBelowCeiling(n) == n < Ceiling /\ \E k \in 0..CountBits : n = 2^k
\* n is a multiple of the ceiling.
MultipleOfCeiling(n) == \E m \in 0..(2^CountBits) : n = m * Ceiling

\* C2 (adaptive lockstep): neither side fails; at every symbol boundary, where
\* both sides have processed the same symbols, the decompressor holds the
\* compressor's frequency table, code tree and counter and has read the
\* symbol that was written; and a symbol in flight is decoded correctly by
\* the tree the decompressor holds before it has seen that symbol, so the
\* tree that codes a symbol depends on the earlier symbols only.
C2_Lockstep ==
    /\ epc # "failed" /\ dpc # "failed"
    /\ epc # "idle" /\ channel = <<>> =>
         /\ dfreqs = freqs /\ dtree = tree /\ dcount = count
         /\ decoded = written
    /\ channel # <<>> /\ dpc = "run" =>
         /\ read(dtree, channel).error = ""
         /\ read(dtree, channel).symbol = written
    /\ dpc = "done" =>
         /\ decoded = EofSymbol
         /\ dfreqs = freqs /\ dtree = tree /\ dcount = count

\* C2 witness: a symbol boundary after the first reset of the table, with a
\* tree that is not the initial one.
C2_Witness ==
    /\ channel = <<>> /\ dpc = "run"
    /\ count > Ceiling
    /\ decoded \in Bytes
    /\ dtree = tree /\ tree # buildCodeTree(initFreqs)
    /\ dfreqs = freqs /\ freqs # initFreqs

\* C3 as claimed: with N the number of symbols processed since the last
\* reset of the table, a round rebuilds the tree from the incremented table
\* if N is a power of two below the ceiling or a multiple of the ceiling,
\* and leaves the tree alone otherwise, in every reset period.
C3_RebuildSinceResetAsClaimed ==
    [][count' # count =>
        LET n == sinceReset + 1
            inc == [freqs EXCEPT ![written'] = @ + 1]
        IN  IF PowerOfTwoBelowCeiling(n) \/ MultipleOfCeiling(n)
            THEN tree' = buildCodeTree(inc)
            ELSE tree' = tree]_vars

\* C3 amended: the same with N the value of the compressor's counter of the
\* bytes read since the start of the stream, a 32-bit counter that a reset of
\* the table does not reset and that wraps to 0 after 2^32 bytes.
C3_RebuildOnTotalCount ==
    [][count' # count =>
        LET n == count'
            inc == [freqs EXCEPT ![written'] = @ + 1]
        IN  IF PowerOfTwoBelowCeiling(n) \/ MultipleOfCeiling(n)
            THEN tree' = buildCodeTree(inc)
            ELSE tree' = tree]_vars

\* C3 witness: the first byte after the first reset has been processed and
\* the tree is not the one a rebuild would have produced.
C3_Witness ==
    /\ epc = "run"
    /\ count = Ceiling + 1
    /\ sinceReset = 1
    /\ written \in Bytes
    /\ tree # buildCodeTree(freqs)

\* C4 (order of a round, and the reset): a round writes the code the symbol
\* has in the tree that was active before the round; the table afterwards is
\* the flat one exactly when N, the symbols since the last reset, is a
\* multiple of the ceiling, and the incremented table otherwise; at a reset
\* the new tree is the one built from the incremented table before the reset;
\* and whenever the tree changes it is the tree of the incremented table.
C4_RoundOrder ==
    [][count' # count =>
        LET n == sinceReset + 1
            inc == [freqs EXCEPT ![written'] = @ + 1]
        IN  /\ tree.codes[written'] # <<>>
            /\ channel' = channel \o tree.codes[written']
            /\ (freqs' = initFreqs) <=> (n % Ceiling = 0)
            /\ (freqs' = initFreqs) <=> (count' % Ceiling = 0)
            /\ n % Ceiling # 0 => freqs' = inc
            /\ n % Ceiling = 0 => tree' = buildCodeTree(inc)
            /\ tree' # tree => tree' = buildCodeTree(inc)
            /\ sinceReset' = IF n % Ceiling = 0 THEN 0 ELSE n]_vars

\* C4 witness: right after a reset the table is flat and the active tree is
\* not the tree of the flat table.
C4_Witness ==
    /\ epc = "run"
    /\ count = Ceiling
    /\ sinceReset = 0
    /\ freqs = initFreqs
    /\ tree # buildCodeTree(initFreqs)

\* C14 (frequencies of the adaptive compressor): at every symbol boundary
\* every frequency is at least 1 and at most 1 + ceiling, the end marker's is
\* exactly 1, and the frequencies sum to the number of symbols plus the
\* symbols processed since the last reset, which are fewer than the ceiling;
\* the active tree has a code for every byte and for the end marker, so that
\* no write fails for want of a code and no increment overflows, however long
\* the input.
C14_FrequencyInvariant ==
    /\ epc # "failed"
    /\ epc \in {"run", "done"} =>
         /\ \A s \in DOMAIN freqs : freqs[s] >= 1 /\ freqs[s] <= 1 + Ceiling
         /\ freqs[EofSymbol] = 1
         /\ SumOver(DOMAIN freqs, freqs) = SymbolLimit + sinceReset
         /\ sinceReset < Ceiling
         /\ tree.error = ""
         /\ \A s \in 0..(SymbolLimit - 1) :
              /\ tree.codes[s] # <<>>
              /\ write(tree, s).error = ""
         /\ \A b \in Bytes : increment(freqs, b).error = ""
         /\ 1 + Ceiling <= FreqMaxValue

\* C14 witness: in a later reset period one byte value has been counted in
\* every round since the reset and the next round will reset the table.
C14_Witness ==
    /\ epc = "run"
    /\ count > Ceiling
    /\ sinceReset = Ceiling - 1
    /\ \E b \in Bytes : freqs[b] = Ceiling
    /\ tree # buildCodeTree(initFreqs)

----------------------------------------------------------------------------
(* Properties of the file round trip (SpecFile) *)

\* A program that ran wrote its file without error, and decoding that file
\* gave the input followed by the end marker.
RoundTrip(file, out) ==
    /\ file # NotRun => file.error = ""
    /\ out # NotRun => out.error = "" /\ out.symbols = Append(input, EofSymbol)

\* C1 as claimed: for every byte sequence, in the static and in the adaptive
\* mode, the compressor produces a bit stream and decoding it yields the
\* bytes followed by the end marker.
C1_RoundTripAsClaimed ==
    /\ RoundTrip(staticFile, staticOut)
    /\ RoundTrip(adaptiveFile, adaptiveOut)

\* C1 witness: the static compressor stopped with the overflow error on a
\* run of one byte value one longer than the largest frequency, an input the
\* adaptive programs carried through.
C1_Witness ==
    /\ Len(input) = FreqMaxValue + 1
    /\ staticFile.error = "Maximum frequency reached"
    /\ staticFile.bits = <<>>
    /\ adaptiveOut # NotRun
    /\ adaptiveOut.symbols = Append(input, EofSymbol)

\* The round trip of the adaptive mode for every input, and of the static
\* mode for the inputs in which no byte value occurs more often than the
\* largest frequency; on the other inputs the static compressor stops with
\* the overflow error of FrequencyTable::increment.
RoundTripWithinCounterRange ==
    /\ RoundTrip(adaptiveFile, adaptiveOut)
    /\ (\A b \in Bytes : Occurrences(input, b) <= FreqMaxValue)
         => RoundTrip(staticFile, staticOut)
    /\ (\E b \in Bytes : Occurrences(input, b) > FreqMaxValue) /\ staticFile # NotRun
         => staticFile.error = "Maximum frequency reached"

\* Both files of an input longer than the ceiling, with two byte values, have
\* been decoded.
RoundTripReached ==
    /\ staticOut # NotRun /\ adaptiveOut # NotRun
    /\ staticOut.symbols = Append(input, EofSymbol)
    /\ adaptiveOut.symbols = Append(input, EofSymbol)
    /\ Len(input) > Ceiling
    /\ \E i, j \in 1..Len(input) : input[i] # input[j]

=============================================================================
